---- MODULE Spec2Model ----
(***************************************************************************)
(* Recipe Matching & Generation Engine (src/app.py, src/cli.py,            *)
(* src/ai_service.py).                                                     *)
(*                                                                         *)
(* Python str values that the code case-folds or searches are sequences of *)
(* one-character strings; dict keys, which the code only looks up, are     *)
(* TLA+ strings.  A dict is a function whose DOMAIN is the set of keys     *)
(* present, so a missing field is a key outside the DOMAIN.                *)
(* Python floats are modelled as exact rationals <<num, den>>, den > 0.    *)
(***************************************************************************)
EXTENDS Integers, Sequences, FiniteSets, TLC

VARIABLES
    op,                    \* the operation that produced `result` ("start" before any)
    recipes,               \* the corpus list handed to filter_recipes
    recipe,                \* the recipe argument of matches / score / adapt / tips
    preferences,           \* dict with optional cuisine, meal_type, difficulty
    dietary_restrictions,  \* list of restriction labels
    available_ingredients, \* list of owned ingredients
    substitutions,         \* list of <<old, new>> pairs, in mapping order
    response,              \* what the model collaborator does for this call
    result,                \* value returned by the last operation
    raised,                \* TRUE iff the last operation let an exception escape
    prev_result,           \* value returned by the call before the last one
    calls,                 \* number of calls made so far
    ai_generator,          \* app.py's module-level generator: "live" or "fallback"
    hashseed,              \* the process's string-hash seed (orders set iteration)
    recipes_json,          \* the list stored in recipes.json
    requests               \* per recommend request: its position and its locals

vars == <<op, recipes, recipe, preferences, dietary_restrictions,
          available_ingredients, substitutions, response, result, raised,
          prev_result, calls, ai_generator, hashseed, recipes_json, requests>>

inputs == <<recipes, recipe, preferences, dietary_restrictions,
            available_ingredients, substitutions, response, ai_generator, hashseed, recipes_json, requests>>

(***************************************************************************)
(* Python str: case folding and substring search                           *)
(***************************************************************************)
UpperChars == <<"A","B","C","D","E","F","G","H","I","J","K","L","M",
                "N","O","P","Q","R","S","T","U","V","W","X","Y","Z">>
LowerChars == <<"a","b","c","d","e","f","g","h","i","j","k","l","m",
                "n","o","p","q","r","s","t","u","v","w","x","y","z">>

\* The case-folding table of str.lower() for ASCII letters.
LowerMap ==
    [c \in {UpperChars[i] : i \in 1..Len(UpperChars)} |->
        LowerChars[CHOOSE i \in 1..Len(UpperChars) : UpperChars[i] = c]]

\* str.lower() on one character
LowerChar(c) == IF c \in DOMAIN LowerMap THEN LowerMap[c] ELSE c

\* str.lower()
Lower(s) == [i \in 1..Len(s) |-> LowerChar(s[i])]

\* Python `a in b` for two str values: a occurs in b as a contiguous run
StrIn(a, b) ==
    \E k \in 0..(Len(b) - Len(a)) :
        \A i \in 1..Len(a) : b[k + i] = a[i]

\* Python `x in lst` for a list
InList(x, lst) == \E i \in 1..Len(lst) : lst[i] = x

\* dict.get(key, default)
Get(d, key, default) == IF key \in DOMAIN d THEN d[key] ELSE default

(***************************************************************************)
(* String literals of the source                                           *)
(***************************************************************************)
S_vegetarian  == <<"v","e","g","e","t","a","r","i","a","n">>
S_vegan       == <<"v","e","g","a","n">>
S_gluten_free == <<"g","l","u","t","e","n","-","f","r","e","e">>
S_dairy_free  == <<"d","a","i","r","y","-","f","r","e","e">>
S_nut_free    == <<"n","u","t","-","f","r","e","e">>
S_low_carb    == <<"l","o","w","-","c","a","r","b">>
S_keto        == <<"k","e","t","o">>

(***************************************************************************)
(* DietaryMatcher: matches_dietary_restrictions                            *)
(***************************************************************************)
\* One pass of the loop body of app.py for restriction number i:
\* TRUE iff the body executes `return False`.
RestrictionFails(recipe_tags, recipe_dietary, restriction) ==
    LET restriction_lower == Lower(restriction) IN
    IF restriction_lower = S_vegetarian
    THEN ~Get(recipe_dietary, "vegetarian", FALSE) /\ ~InList(S_vegetarian, recipe_tags)
    ELSE IF restriction_lower = S_vegan
    THEN ~Get(recipe_dietary, "vegan", FALSE) /\ ~InList(S_vegan, recipe_tags)
    ELSE IF restriction_lower = S_gluten_free
    THEN ~Get(recipe_dietary, "gluten_free", FALSE) /\ ~InList(S_gluten_free, recipe_tags)
    ELSE IF restriction_lower = S_dairy_free
    THEN ~Get(recipe_dietary, "dairy_free", FALSE) /\ ~InList(S_dairy_free, recipe_tags)
    ELSE IF restriction_lower = S_nut_free
    THEN ~Get(recipe_dietary, "nut_free", FALSE) /\ ~InList(S_nut_free, recipe_tags)
    ELSE IF restriction_lower = S_low_carb
    THEN ~Get(recipe_dietary, "low_carb", FALSE) /\ ~InList(S_low_carb, recipe_tags)
    ELSE IF restriction_lower = S_keto
    THEN ~Get(recipe_dietary, "keto", FALSE) /\ ~InList(S_keto, recipe_tags)
    ELSE FALSE

\* A plausible slip: `return True` inside the loop, so that only the first
\* restriction is ever looked at.
MatchesLoopFirstOnly(recipe_tags, recipe_dietary, restrictions, i) ==
    IF i > Len(restrictions) THEN TRUE
    ELSE ~RestrictionFails(recipe_tags, recipe_dietary, restrictions[i])

\* The `for restriction in restrictions` loop, from position i on.
RECURSIVE MatchesLoop(_, _, _, _)
MatchesLoop(recipe_tags, recipe_dietary, restrictions, i) ==
    IF i > Len(restrictions) THEN TRUE
    ELSE IF RestrictionFails(recipe_tags, recipe_dietary, restrictions[i]) THEN FALSE
    ELSE MatchesLoop(recipe_tags, recipe_dietary, restrictions, i + 1)

matches_dietary_restrictions(rcp, restrictions) ==
    IF restrictions = <<>> THEN TRUE
    ELSE MatchesLoop(Get(rcp, "tags", <<>>), Get(rcp, "dietary_info", <<>>),
                     restrictions, 1)

\* cli.py: one `if r == label and (...)` per label inside the loop.
CliRestrictionFails(recipe_tags, recipe_dietary, restriction) ==
    LET r == Lower(restriction) IN
    \/ r = S_vegetarian /\ (~Get(recipe_dietary, "vegetarian", FALSE) /\ ~InList(S_vegetarian, recipe_tags))
    \/ r = S_vegan /\ (~Get(recipe_dietary, "vegan", FALSE) /\ ~InList(S_vegan, recipe_tags))
    \/ r = S_gluten_free /\ (~Get(recipe_dietary, "gluten_free", FALSE) /\ ~InList(S_gluten_free, recipe_tags))
    \/ r = S_dairy_free /\ (~Get(recipe_dietary, "dairy_free", FALSE) /\ ~InList(S_dairy_free, recipe_tags))
    \/ r = S_nut_free /\ (~Get(recipe_dietary, "nut_free", FALSE) /\ ~InList(S_nut_free, recipe_tags))
    \/ r = S_low_carb /\ (~Get(recipe_dietary, "low_carb", FALSE) /\ ~InList(S_low_carb, recipe_tags))
    \/ r = S_keto /\ (~Get(recipe_dietary, "keto", FALSE) /\ ~InList(S_keto, recipe_tags))

cli_matches_dietary_restrictions(rcp, restrictions) ==
    IF restrictions = <<>> THEN TRUE
    ELSE LET recipe_tags == Get(rcp, "tags", <<>>)
             recipe_dietary == Get(rcp, "dietary_info", <<>>)
         IN \A i \in 1..Len(restrictions) :
                ~CliRestrictionFails(recipe_tags, recipe_dietary, restrictions[i])

(***************************************************************************)
(* Inputs of the DietaryMatcher specification                              *)
(***************************************************************************)
S_Vegetarian  == <<"V","e","g","e","t","a","r","i","a","n">>
S_Vegan       == <<"V","e","g","a","n">>
S_paleo       == <<"p","a","l","e","o">>

DietaryFlags == {"vegetarian", "vegan", "gluten_free", "dairy_free",
                 "nut_free", "low_carb", "keto"}

CanonicalLabels == {S_vegetarian, S_vegan, S_gluten_free, S_dairy_free,
                    S_nut_free, S_low_carb, S_keto}

\* Labels a caller may send: the vocabulary, one in another letter case, and
\* one outside the vocabulary.
RestrictionLabels == CanonicalLabels \cup {S_Vegetarian, S_paleo}

\* Tags a corpus recipe may carry; "Vegan" is not the tag the matcher looks for.
TagVocabulary == CanonicalLabels \cup {S_Vegan}

MaxRestrictions == 2

SeqsUpTo(S, n) == UNION {[1..k -> S] : k \in 0..n}

RestrictionLists == SeqsUpTo(RestrictionLabels, MaxRestrictions)

\* dietary_info dicts: empty, or holding one flag (true or false).
DietaryInfos == UNION {[D -> BOOLEAN] : D \in {{}} \cup {{f} : f \in DietaryFlags}}

TagLists == {<<>>} \cup {<<t>> : t \in TagVocabulary}

\* Recipes as the matcher sees them: tags and dietary_info, either possibly absent.
DietRecipes ==
    {[dietary_info |-> d, tags |-> t] : d \in DietaryInfos, t \in TagLists}
    \cup {[dietary_info |-> d] : d \in DietaryInfos}
    \cup {[tags |-> t] : t \in TagLists}

NoValue == <<>>

\* What the model collaborator does when called: raise, or answer with text.
\* NoResponse: the collaborator is not called.
NoResponse == [raises |-> FALSE, text |-> <<>>]

InitMatch ==
    /\ op = "start"
    /\ recipes_json = <<>>
    /\ requests = <<>>
    /\ recipe \in DietRecipes
    /\ dietary_restrictions \in RestrictionLists
    /\ recipes = <<>>
    /\ preferences = <<>>
    /\ available_ingredients = <<>>
    /\ substitutions = <<>>
    /\ response = NoResponse
    /\ result = NoValue
    /\ raised = FALSE
    /\ prev_result = NoValue
    /\ calls = 0
    /\ ai_generator = "fallback"
    /\ hashseed = 0

\* app.py: matches_dietary_restrictions(recipe, restrictions)
Matches ==
    /\ op = "start"
    /\ op' = "matches"
    /\ result' = matches_dietary_restrictions(recipe, dietary_restrictions)
    /\ calls' = calls + 1
    /\ UNCHANGED <<inputs, raised, prev_result>>

\* cli.py: matches_dietary_restrictions(recipe, restrictions)
CliMatches ==
    /\ op = "start"
    /\ op' = "cli_matches"
    /\ result' = cli_matches_dietary_restrictions(recipe, dietary_restrictions)
    /\ calls' = calls + 1
    /\ UNCHANGED <<inputs, raised, prev_result>>

NextMatch == Matches \/ CliMatches

SpecMatch == InitMatch /\ [][NextMatch]_vars

(***************************************************************************)
(* C4                                                                      *)
(***************************************************************************)
\* The recognized labels with the dietary_info flag each one stands for.
LabelFlag == <<
    <<S_vegetarian, "vegetarian">>, <<S_vegan, "vegan">>,
    <<S_gluten_free, "gluten_free">>, <<S_dairy_free, "dairy_free">>,
    <<S_nut_free, "nut_free">>, <<S_low_carb, "low_carb">>, <<S_keto, "keto">> >>

Recognized(label) == \E n \in 1..Len(LabelFlag) : LabelFlag[n][1] = Lower(label)

\* The recipe declares the label by either channel: flag true, or label in tags.
Declares(rcp, label) ==
    \E n \in 1..Len(LabelFlag) :
        /\ LabelFlag[n][1] = Lower(label)
        /\ \/ Get(Get(rcp, "dietary_info", <<>>), LabelFlag[n][2], FALSE)
           \/ InList(LabelFlag[n][1], Get(rcp, "tags", <<>>))

MatchedBothWays(rcp, R) ==
    /\ matches_dietary_restrictions(rcp, R) = cli_matches_dietary_restrictions(rcp, R)
    /\ matches_dietary_restrictions(rcp, R)

\* C4: matches(r, R) is true exactly when every label of R that case-folds to
\* a recognized label is declared by r through its dietary_info flag or its
\* tags; hence matches(r, {}) is true, an unrecognized label never changes the
\* result, adding a satisfied restriction keeps a true result true, adding an
\* unsatisfied recognized restriction gives false, and vegan = true alone does
\* not satisfy "vegetarian".  Both front ends' matchers are covered.
C4_MatchesIffEveryRecognizedDeclared ==
    op \in {"matches", "cli_matches"} =>
        /\ result = (\A i \in 1..Len(dietary_restrictions) :
                        Recognized(dietary_restrictions[i])
                            => Declares(recipe, dietary_restrictions[i]))
        /\ MatchedBothWays(recipe, <<>>)
        /\ \A l \in RestrictionLabels :
             LET more == Append(dietary_restrictions, l)
                 m == IF op = "matches"
                      THEN matches_dietary_restrictions(recipe, more)
                      ELSE cli_matches_dietary_restrictions(recipe, more)
             IN /\ ~Recognized(l) => m = result
                /\ (result /\ Declares(recipe, l)) => m
                /\ (Recognized(l) /\ ~Declares(recipe, l)) => ~m
        /\ ( /\ Get(Get(recipe, "dietary_info", <<>>), "vegan", FALSE)
             /\ ~Get(Get(recipe, "dietary_info", <<>>), "vegetarian", FALSE)
             /\ ~InList(S_vegetarian, Get(recipe, "tags", <<>>))
             /\ \E i \in 1..Len(dietary_restrictions) :
                    Lower(dietary_restrictions[i]) = S_vegetarian )
           => result = FALSE

\* A vegan-flagged recipe was matched against <<"Vegetarian", "paleo">> and rejected.
C4_Witness ==
    /\ op = "matches"
    /\ Get(Get(recipe, "dietary_info", <<>>), "vegan", FALSE)
    /\ dietary_restrictions = <<S_Vegetarian, S_paleo>>
    /\ result = FALSE

(***************************************************************************)
(* Floats as exact rationals                                               *)
(***************************************************************************)
Rat(n, d) == <<n, d>>
RatEq(a, b) == a[1] * b[2] = b[1] * a[2]
RatLe(a, b) == a[1] * b[2] <= b[1] * a[2]
RatLt(a, b) == a[1] * b[2] < b[1] * a[2]
RatAdd(a, b) == <<a[1] * b[2] + b[1] * a[2], a[2] * b[2]>>
RatMul(a, b) == <<a[1] * b[1], a[2] * b[2]>>
RatZero == Rat(0, 1)
RatOne == Rat(1, 1)

(***************************************************************************)
(* IngredientScorer: calculate_ingredient_match_score                      *)
(***************************************************************************)
\* [ing.lower() for ing in lst]
LowerAll(lst) == [i \in 1..Len(lst) |-> Lower(lst[i])]

\* A plausible slip: containment tested in one direction only.
IngredientAvailableOneWay(ing, available_lower) ==
    \E j \in 1..Len(available_lower) : StrIn(available_lower[j], ing)

\* any(avail in ing or ing in avail for avail in available_lower)
IngredientAvailable(ing, available_lower) ==
    \E j \in 1..Len(available_lower) :
        StrIn(available_lower[j], ing) \/ StrIn(ing, available_lower[j])

\* sum(1 for ing in recipe_ingredients if any(...)), over positions i..Len
RECURSIVE CountMatching(_, _, _)
CountMatching(recipe_ingredients, available_lower, i) ==
    IF i > Len(recipe_ingredients) THEN 0
    ELSE (IF IngredientAvailable(recipe_ingredients[i], available_lower) THEN 1 ELSE 0)
         + CountMatching(recipe_ingredients, available_lower, i + 1)

\* A plausible slip: the empty-recipe test placed before the empty-owned test.
ScoreEmptyRecipeFirst(rcp, available) ==
    LET recipe_ingredients == LowerAll(Get(rcp, "ingredients", <<>>))
        available_lower == LowerAll(available)
        matching == CountMatching(recipe_ingredients, available_lower, 1)
        total == Len(recipe_ingredients)
    IN IF total = 0 THEN RatZero
       ELSE IF available = <<>> THEN RatOne
       ELSE IF matching = total THEN RatOne
       ELSE Rat(matching, total)

calculate_ingredient_match_score(rcp, available) ==
    IF available = <<>> THEN RatOne
    ELSE LET recipe_ingredients == LowerAll(Get(rcp, "ingredients", <<>>))
             available_lower == LowerAll(available)
             matching == CountMatching(recipe_ingredients, available_lower, 1)
             total == Len(recipe_ingredients)
         IN IF total = 0 THEN RatZero
            ELSE IF matching = total THEN RatOne
            ELSE Rat(matching, total)

\* cli.py: the same function, written again.
cli_calculate_ingredient_match_score(rcp, available) ==
    IF available = <<>> THEN RatOne
    ELSE LET recipe_ingredients == LowerAll(Get(rcp, "ingredients", <<>>))
             available_lower == LowerAll(available)
             matching == CountMatching(recipe_ingredients, available_lower, 1)
             total == Len(recipe_ingredients)
         IN IF total = 0 THEN RatZero
            ELSE IF matching = total THEN RatOne
            ELSE Rat(matching, total)

(***************************************************************************)
(* Inputs of the IngredientScorer specification                            *)
(***************************************************************************)
S_Tomato   == <<"T","o","m","a","t","o">>
S_tomatoes == <<"t","o","m","a","t","o","e","s">>
S_salt     == <<"s","a","l","t">>
S_basil    == <<"b","a","s","i","l">>

IngredientNames == {S_Tomato, S_tomatoes, S_salt, S_basil}

MaxIngredients == 3
MaxOwned == 2

IngredientLists == SeqsUpTo(IngredientNames, MaxIngredients)
OwnedLists == SeqsUpTo(IngredientNames, MaxOwned)

\* Recipes as the scorer sees them: an ingredient list, or none at all.
ScoreRecipes == {[ingredients |-> l] : l \in IngredientLists} \cup {<<>>}

InitScore ==
    /\ op = "start"
    /\ recipes_json = <<>>
    /\ requests = <<>>
    /\ recipe \in ScoreRecipes
    /\ available_ingredients \in OwnedLists
    /\ recipes = <<>>
    /\ preferences = <<>>
    /\ dietary_restrictions = <<>>
    /\ substitutions = <<>>
    /\ response = NoResponse
    /\ result = NoValue
    /\ raised = FALSE
    /\ prev_result = NoValue
    /\ calls = 0
    /\ ai_generator = "fallback"
    /\ hashseed = 0

\* app.py: calculate_ingredient_match_score(recipe, available_ingredients)
Score ==
    /\ op = "start"
    /\ op' = "score"
    /\ result' = calculate_ingredient_match_score(recipe, available_ingredients)
    /\ calls' = calls + 1
    /\ UNCHANGED <<inputs, raised, prev_result>>

\* cli.py: calculate_ingredient_match_score(recipe, available_ingredients)
CliScore ==
    /\ op = "start"
    /\ op' = "cli_score"
    /\ result' = cli_calculate_ingredient_match_score(recipe, available_ingredients)
    /\ calls' = calls + 1
    /\ UNCHANGED <<inputs, raised, prev_result>>

NextScore == Score \/ CliScore

SpecScore == InitScore /\ [][NextScore]_vars

(***************************************************************************)
(* C5, C6                                                                  *)
(***************************************************************************)
\* C5: with no owned ingredients the score is 1.0 for every recipe, also one
\* with no ingredients; with a non-empty owned list a recipe that lists no
\* ingredients scores 0.0.
C5_ScoreBoundaryCases ==
    op \in {"score", "cli_score"} =>
        /\ available_ingredients = <<>> => result = RatOne
        /\ (available_ingredients # <<>> /\ Get(recipe, "ingredients", <<>>) = <<>>)
               => result = RatZero

\* A recipe with no ingredients was scored against an empty owned list.
C5_Witness ==
    /\ op = "score"
    /\ available_ingredients = <<>>
    /\ Get(recipe, "ingredients", <<>>) = <<>>
    /\ result = RatOne

\* Positions of the recipe's ingredient list that are matched: after case
\* folding the ingredient is inside, or contains, some owned ingredient.
MatchedPositions(rcp, owned) ==
    LET ings == Get(rcp, "ingredients", <<>>) IN
    {i \in 1..Len(ings) :
        \E j \in 1..Len(owned) :
            \/ StrIn(Lower(ings[i]), Lower(owned[j]))
            \/ StrIn(Lower(owned[j]), Lower(ings[i]))}

\* C6: for n >= 1 ingredients and a non-empty owned list the score is
\* matched/n, counting every matched position (duplicates once per
\* occurrence); it lies in [0,1] and is 1.0 exactly when every position is
\* matched.
C6_ScoreIsMatchedFraction ==
    (op \in {"score", "cli_score"} /\ available_ingredients # <<>>
        /\ Len(Get(recipe, "ingredients", <<>>)) >= 1) =>
        LET n == Len(Get(recipe, "ingredients", <<>>))
            matched == Cardinality(MatchedPositions(recipe, available_ingredients))
        IN /\ RatEq(result, Rat(matched, n))
           /\ RatLe(RatZero, result) /\ RatLe(result, RatOne)
           /\ RatEq(result, RatOne) <=> matched = n

\* "Tomato" twice and "basil" scored against owned "tomatoes": 2 of 3.
C6_Witness ==
    /\ op = "score"
    /\ Get(recipe, "ingredients", <<>>) = <<S_Tomato, S_basil, S_Tomato>>
    /\ available_ingredients = <<S_tomatoes>>
    /\ result = Rat(2, 3)

(***************************************************************************)
(* PreferenceRanker: filter_recipes                                        *)
(***************************************************************************)
\* preferences.get(key) is truthy: the key is present with a non-empty string.
Requested(prefs, key) == Get(prefs, key, <<>>) # <<>>

\* cuisine_match: lines 96-101 (and, with "meal_type", lines 104-109):
\* the requested value, case-folded, is a substring of the recipe's.
SubstringPreferenceMatch(rcp, prefs, key) ==
    IF Requested(prefs, key)
    THEN StrIn(Lower(prefs[key]), Lower(Get(rcp, key, <<>>)))
    ELSE TRUE

\* A plausible slip: difficulty compared by containment like the other two.
DifficultyMatchBySubstring(rcp, prefs) ==
    IF Requested(prefs, "difficulty")
    THEN StrIn(Lower(prefs["difficulty"]), Lower(Get(rcp, "difficulty", <<>>)))
    ELSE TRUE

\* difficulty_match: lines 112-117, equality after case folding.
DifficultyMatch(rcp, prefs) ==
    IF Requested(prefs, "difficulty")
    THEN Lower(Get(rcp, "difficulty", <<>>)) = Lower(prefs["difficulty"])
    ELSE TRUE

\* preference_score: 1.0, then *= 0.7, *= 0.7, *= 0.8 for each mismatch.
PreferenceScore(cuisine_match, meal_type_match, difficulty_match) ==
    LET s0 == RatOne
        s1 == IF ~cuisine_match THEN RatMul(s0, Rat(7, 10)) ELSE s0
        s2 == IF ~meal_type_match THEN RatMul(s1, Rat(7, 10)) ELSE s1
        s3 == IF ~difficulty_match THEN RatMul(s2, Rat(8, 10)) ELSE s2
    IN s3

\* final_score = match_score * 0.6 + preference_score * 0.4
FinalScore(match_score, preference_score) ==
    RatAdd(RatMul(match_score, Rat(6, 10)), RatMul(preference_score, Rat(4, 10)))

\* The dict appended to `filtered` for a recipe that passed the dietary check.
Candidate(rcp, prefs, available) ==
    LET match_score == calculate_ingredient_match_score(rcp, available)
        cuisine_match == SubstringPreferenceMatch(rcp, prefs, "cuisine")
        meal_type_match == SubstringPreferenceMatch(rcp, prefs, "meal_type")
        difficulty_match == DifficultyMatch(rcp, prefs)
        preference_score == PreferenceScore(cuisine_match, meal_type_match, difficulty_match)
    IN [recipe |-> rcp,
        score |-> FinalScore(match_score, preference_score),
        ingredient_match |-> match_score,
        preference_match |-> preference_score]

\* The `for recipe in recipes` loop from position i on, appending to `filtered`.
RECURSIVE FilterLoop(_, _, _, _, _, _)
FilterLoop(rs, prefs, restrictions, available, i, filtered) ==
    IF i > Len(rs) THEN filtered
    ELSE IF ~matches_dietary_restrictions(rs[i], restrictions)
    THEN FilterLoop(rs, prefs, restrictions, available, i + 1, filtered)
    ELSE FilterLoop(rs, prefs, restrictions, available, i + 1,
                    Append(filtered, Candidate(rs[i], prefs, available)))

\* A plausible slip: an unstable descending sort, which puts an element
\* before the elements it ties with.
InsertByScoreBeforeTies(sorted, x) ==
    LET k == Cardinality({j \in 1..Len(sorted) : RatLt(x.score, sorted[j].score)})
    IN SubSeq(sorted, 1, k) \o <<x>> \o SubSeq(sorted, k + 1, Len(sorted))

\* list.sort(key=score, reverse=True) is stable: an element goes after every
\* element whose score is greater than or equal to its own.
InsertByScore(sorted, x) ==
    LET k == Cardinality({j \in 1..Len(sorted) : RatLe(x.score, sorted[j].score)})
    IN SubSeq(sorted, 1, k) \o <<x>> \o SubSeq(sorted, k + 1, Len(sorted))

RECURSIVE SortByScore(_, _, _)
SortByScore(lst, i, sorted) ==
    IF i > Len(lst) THEN sorted
    ELSE SortByScore(lst, i + 1, InsertByScore(sorted, lst[i]))

filter_recipes(rs, prefs, restrictions, available) ==
    SortByScore(FilterLoop(rs, prefs, restrictions, available, 1, <<>>), 1, <<>>)

\* cli.py: the same loop with cli.py's own matcher and scorer.
CliCandidate(rcp, prefs, available) ==
    LET match_score == cli_calculate_ingredient_match_score(rcp, available)
        preference_score ==
            PreferenceScore(SubstringPreferenceMatch(rcp, prefs, "cuisine"),
                            SubstringPreferenceMatch(rcp, prefs, "meal_type"),
                            DifficultyMatch(rcp, prefs))
    IN [recipe |-> rcp,
        score |-> FinalScore(match_score, preference_score),
        ingredient_match |-> match_score,
        preference_match |-> preference_score]

RECURSIVE CliFilterLoop(_, _, _, _, _, _)
CliFilterLoop(rs, prefs, restrictions, available, i, filtered) ==
    IF i > Len(rs) THEN filtered
    ELSE IF ~cli_matches_dietary_restrictions(rs[i], restrictions)
    THEN CliFilterLoop(rs, prefs, restrictions, available, i + 1, filtered)
    ELSE CliFilterLoop(rs, prefs, restrictions, available, i + 1,
                       Append(filtered, CliCandidate(rs[i], prefs, available)))

cli_filter_recipes(rs, prefs, restrictions, available) ==
    SortByScore(CliFilterLoop(rs, prefs, restrictions, available, 1, <<>>), 1, <<>>)

\* A plausible slip: sorting the caller's list in place inside filter_recipes.
RecipesSortedInPlace(rs, prefs, restrictions, available) ==
    LET ranked == SortByScore([i \in 1..Len(rs) |-> Candidate(rs[i], prefs, available)],
                              1, <<>>)
    IN [i \in 1..Len(rs) |-> ranked[i].recipe]

\* The caller's corpus list after filter_recipes returns: the function only
\* reads `recipes` and every recipe in it (all writes go to `filtered`).
RecipesAfterFilter(rs, prefs, restrictions, available) == rs

(***************************************************************************)
(* Inputs of the PreferenceRanker specifications                           *)
(***************************************************************************)
S_Italian == <<"I","t","a","l","i","a","n">>
S_Thai    == <<"T","h","a","i">>
S_ital    == <<"i","t","a","l">>
S_thai    == <<"t","h","a","i">>
S_Lunch   == <<"L","u","n","c","h">>
S_lunch   == <<"l","u","n","c","h">>
S_Dinner  == <<"D","i","n","n","e","r">>
S_Easy    == <<"E","a","s","y">>
S_easy    == <<"e","a","s","y">>
S_eas     == <<"e","a","s">>
S_Hard    == <<"H","a","r","d">>
S_HARD    == <<"H","A","R","D">>
S_empty   == <<>>

\* Dicts that hold `key` with a value of S, or do not hold it.
OptionalField(key, S) == {<<>>} \cup {key :> v : v \in S}

\* Recipes for the ranking of a corpus: two cuisines, with or without the
\* vegan tag, two ingredient lists.
RankRecipes ==
    {a @@ b @@ c : a \in {"cuisine" :> v : v \in {S_Italian, S_Thai}},
                   b \in OptionalField("tags", {<<S_vegan>>}),
                   c \in {"ingredients" :> v : v \in {<<S_salt>>, <<S_basil>>}}}

MaxCorpus == 3
MaxCalls == 2

InitRank ==
    /\ op = "start"
    /\ recipes_json = <<>>
    /\ requests = <<>>
    /\ recipes \in SeqsUpTo(RankRecipes, MaxCorpus)
    /\ preferences \in OptionalField("cuisine", {S_thai})
    /\ dietary_restrictions \in {<<>>, <<S_Vegan>>}
    /\ available_ingredients \in {<<>>, <<S_salt>>}
    /\ recipe = <<>>
    /\ substitutions = <<>>
    /\ response = NoResponse
    /\ result = NoValue
    /\ raised = FALSE
    /\ prev_result = NoValue
    /\ calls = 0
    /\ ai_generator = "fallback"
    /\ hashseed = 0

\* Recipes for the scoring of one candidate: every field the ranker reads
\* may be absent.
PrefRecipes ==
    {a @@ b @@ c @@ d : a \in OptionalField("cuisine", {S_Italian, S_Thai}),
                        b \in OptionalField("meal_type", {S_Lunch}),
                        c \in OptionalField("difficulty", {S_Easy, S_Hard}),
                        d \in OptionalField("ingredients", {<<S_salt>>, <<S_salt, S_basil>>})}

\* Preferences: every field absent, empty, or one of a few spellings.
PrefDicts ==
    {a @@ b @@ c : a \in OptionalField("cuisine", {S_empty, S_ital, S_Thai}),
                   b \in OptionalField("meal_type", {S_empty, S_lunch, S_Dinner}),
                   c \in OptionalField("difficulty", {S_empty, S_easy, S_eas, S_HARD})}

InitPrefs ==
    /\ op = "start"
    /\ recipes_json = <<>>
    /\ requests = <<>>
    /\ recipes \in {<<r>> : r \in PrefRecipes}
    /\ preferences \in PrefDicts
    /\ dietary_restrictions = <<>>
    /\ available_ingredients \in {<<>>, <<S_salt>>}
    /\ recipe = <<>>
    /\ substitutions = <<>>
    /\ response = NoResponse
    /\ result = NoValue
    /\ raised = FALSE
    /\ prev_result = NoValue
    /\ calls = 0
    /\ ai_generator = "fallback"
    /\ hashseed = 0

\* app.py: filter_recipes(recipes, preferences, dietary_restrictions, available_ingredients)
Rank ==
    /\ calls < MaxCalls
    /\ op' = "rank"
    /\ prev_result' = result
    /\ result' = filter_recipes(recipes, preferences, dietary_restrictions,
                                available_ingredients)
    /\ recipes' = RecipesAfterFilter(recipes, preferences, dietary_restrictions,
                                     available_ingredients)
    /\ raised' = FALSE
    /\ calls' = calls + 1
    /\ UNCHANGED <<recipe, preferences, dietary_restrictions,
                   available_ingredients, substitutions, response,
                   ai_generator, hashseed, recipes_json, requests>>

\* cli.py: filter_recipes(recipes, preferences, dietary_restrictions, available_ingredients)
CliRank ==
    /\ calls < MaxCalls
    /\ op' = "cli_rank"
    /\ prev_result' = result
    /\ result' = cli_filter_recipes(recipes, preferences, dietary_restrictions,
                                    available_ingredients)
    /\ raised' = FALSE
    /\ calls' = calls + 1
    /\ UNCHANGED inputs

NextRank == Rank \/ CliRank

SpecRank == InitRank /\ [][NextRank]_vars

SpecPrefs == InitPrefs /\ [][NextRank]_vars

(***************************************************************************)
(* C7                                                                      *)
(***************************************************************************)
Ranked == op \in {"rank", "cli_rank"}

\* The corpus recipes that pass the dietary matcher, in corpus order, scored.
PassingCandidates ==
    LET passing == SelectSeq(recipes,
                       LAMBDA r : matches_dietary_restrictions(r, dietary_restrictions))
    IN [j \in 1..Len(passing) |->
            Candidate(passing[j], preferences, available_ingredients)]

\* The recipes of the candidates of lst whose composite score equals s.
RecipesWithScore(lst, s) ==
    LET same == SelectSeq(lst, LAMBDA c : RatEq(c.score, s))
    IN [j \in 1..Len(same) |-> same[j].recipe]

\* C7: the ranking holds exactly the corpus recipes that pass the dietary
\* matcher, each occurrence once; it is ordered non-increasing by composite
\* score; candidates of equal composite score keep their corpus order.
C7_RankExactSortedStable ==
    Ranked =>
        /\ Len(result) = Len(PassingCandidates)
        /\ \A i \in 1..Len(result) :
               RecipesWithScore(result, result[i].score)
                   = RecipesWithScore(PassingCandidates, result[i].score)
        /\ \A i \in 1..(Len(result) - 1) : RatLe(result[i + 1].score, result[i].score)

\* Three recipes were ranked, one was rejected by the matcher, and the two
\* that remain tie and differ, so that their order shows.
C7_Witness ==
    /\ op = "rank"
    /\ Len(recipes) = 3
    /\ Len(result) = 2
    /\ RatEq(result[1].score, result[2].score)
    /\ result[1].recipe # result[2].recipe

(***************************************************************************)
(* C8                                                                      *)
(***************************************************************************)
\* A non-empty requested value that does not occur, case-insensitively,
\* inside the recipe's value (a missing recipe field being the empty string).
NotContained(rcp, key) ==
    /\ key \in DOMAIN preferences
    /\ preferences[key] # <<>>
    /\ ~StrIn(Lower(preferences[key]), Lower(IF key \in DOMAIN rcp THEN rcp[key] ELSE <<>>))

\* A non-empty requested difficulty that differs, case-insensitively, from
\* the recipe's.
DifficultyDiffers(rcp) ==
    /\ "difficulty" \in DOMAIN preferences
    /\ preferences["difficulty"] # <<>>
    /\ Lower(preferences["difficulty"])
           # Lower(IF "difficulty" \in DOMAIN rcp THEN rcp["difficulty"] ELSE <<>>)

\* 1.0 times 0.7 per containment mismatch, times 0.8 for a difficulty
\* mismatch, in thousandths.
ExpectedPreferenceThousandths(rcp) ==
    LET k == (IF NotContained(rcp, "cuisine") THEN 1 ELSE 0)
             + (IF NotContained(rcp, "meal_type") THEN 1 ELSE 0)
        base == <<1000, 700, 490>>[k + 1]
    IN IF DifficultyDiffers(rcp) THEN (base * 8) \div 10 ELSE base

\* C8: for every ranked candidate preference_match is 1.0 times 0.7 for a
\* non-empty requested cuisine not contained in the recipe's cuisine, times
\* 0.7 likewise for meal_type, times 0.8 for a non-empty requested difficulty
\* not equal to the recipe's (case-insensitively; absent or empty requests
\* apply no multiplier, a missing recipe field is the empty string);
\* composite = 0.6 * ingredient_match + 0.4 * preference_match, within [0,1].
C8_PreferenceAndComposite ==
    Ranked =>
        \A i \in 1..Len(result) :
            LET c == result[i] IN
            /\ c.preference_match[1] * 1000
                   = ExpectedPreferenceThousandths(c.recipe) * c.preference_match[2]
            /\ c.score[1] * (10 * c.ingredient_match[2] * c.preference_match[2])
                   = c.score[2] * (6 * c.ingredient_match[1] * c.preference_match[2]
                                   + 4 * c.preference_match[1] * c.ingredient_match[2])
            /\ RatLe(RatZero, c.score) /\ RatLe(c.score, RatOne)

\* An "Easy" Italian recipe ranked for cuisine "ital" (contained) and
\* difficulty "eas" (contained but not equal): preference_match is 0.8.
C8_Witness ==
    /\ op = "rank"
    /\ Len(result) = 1
    /\ Get(result[1].recipe, "cuisine", <<>>) = S_Italian
    /\ Get(result[1].recipe, "difficulty", <<>>) = S_Easy
    /\ Get(preferences, "cuisine", <<>>) = S_ital
    /\ Get(preferences, "difficulty", <<>>) = S_eas
    /\ "meal_type" \notin DOMAIN preferences
    /\ RatEq(result[1].preference_match, Rat(8, 10))

(***************************************************************************)
(* C9                                                                      *)
(***************************************************************************)
\* C9: a call of rank leaves the corpus, every recipe in it, the
\* preferences, the restrictions and the owned ingredients as they were, and
\* a call after the first returns the ranking the call before it returned.
C9_RankNonMutatingRestartable ==
    [][ (op' \in {"rank", "cli_rank"}) =>
            /\ recipes' = recipes
            /\ preferences' = preferences
            /\ dietary_restrictions' = dietary_restrictions
            /\ available_ingredients' = available_ingredients
            /\ (calls >= 1 => result' = result) ]_vars

\* rank was called twice on a corpus that is not in ranked order, and
\* answered the same both times.
C9_Witness ==
    /\ op = "rank"
    /\ calls = 2
    /\ Len(result) = 2
    /\ result = prev_result
    /\ Len(recipes) = 2
    /\ result[1].recipe = recipes[2]
    /\ result[1].recipe # recipes[1]

(***************************************************************************)
(* ResponseExtractor: GeminiGenerator._parse_json_from_response            *)
(*                                                                         *)
(* A response text is a sequence of lexical units.  "{", "}", "[", "]"     *)
(* and "," are those characters; "s" is a JSON string literal such as      *)
(* "tip"; "w" is a word of prose; a unit "m:..." is one object member,     *)
(* key, colon and scalar value, as listed in MemberKey and MemberValue.    *)
(* No unit but the first four holds a brace or a bracket, so both regular  *)
(* expressions see the text exactly as they see its characters.            *)
(***************************************************************************)
S_X == <<"X">>

MemberUnits == {"m:name", "m:id5", "m:ai_true", "m:ai_false"}

\* The key of a member unit: "name":"X", "id":5, "ai_generated":true/false.
MemberKey(u) ==
    CASE u = "m:name" -> "name"
      [] u = "m:id5" -> "id"
      [] u = "m:ai_true" -> "ai_generated"
      [] u = "m:ai_false" -> "ai_generated"

MemberValue(u) ==
    CASE u = "m:name" -> S_X
      [] u = "m:id5" -> 5
      [] u = "m:ai_true" -> TRUE
      [] u = "m:ai_false" -> FALSE

\* Python values the extractor can return.  kind "none" is None.
PyNone == [kind |-> "none", dict |-> <<>>, items |-> <<>>]
PyDict(d) == [kind |-> "object", dict |-> d, items |-> <<>>]
PyList(l) == [kind |-> "array", dict |-> <<>>, items |-> l]
PyStr == [kind |-> "string", dict |-> <<>>, items |-> <<>>]

\* dict[key] = value on a dict
DictSet(d, key, value) == (key :> value) @@ d

NoParse == [ok |-> FALSE, val |-> PyNone, next |-> 0]

\* json.loads, by recursive descent: the value that starts at unit i of t.
\* [ok, val, next]: next is the position after the value.
RECURSIVE JsonValue(_, _)
RECURSIVE JsonMembers(_, _, _)
RECURSIVE JsonElements(_, _, _)

\* After "{" and zero or more `member ,`: a member, then "," or "}".
JsonMembers(t, i, d) ==
    IF i + 1 > Len(t) \/ t[i] \notin MemberUnits THEN NoParse
    ELSE LET d2 == DictSet(d, MemberKey(t[i]), MemberValue(t[i])) IN
         IF t[i + 1] = "}" THEN [ok |-> TRUE, val |-> PyDict(d2), next |-> i + 2]
         ELSE IF t[i + 1] = "," THEN JsonMembers(t, i + 2, d2)
         ELSE NoParse

\* After "[" and zero or more `value ,`: a value, then "," or "]".
JsonElements(t, i, l) ==
    LET v == JsonValue(t, i) IN
    IF ~v.ok \/ v.next > Len(t) THEN NoParse
    ELSE IF t[v.next] = "]"
    THEN [ok |-> TRUE, val |-> PyList(Append(l, v.val)), next |-> v.next + 1]
    ELSE IF t[v.next] = "," THEN JsonElements(t, v.next + 1, Append(l, v.val))
    ELSE NoParse

JsonValue(t, i) ==
    IF i > Len(t) THEN NoParse
    ELSE IF t[i] = "s" THEN [ok |-> TRUE, val |-> PyStr, next |-> i + 1]
    ELSE IF t[i] = "{"
    THEN IF i + 1 <= Len(t) /\ t[i + 1] = "}"
         THEN [ok |-> TRUE, val |-> PyDict(<<>>), next |-> i + 2]
         ELSE JsonMembers(t, i + 1, <<>>)
    ELSE IF t[i] = "["
    THEN IF i + 1 <= Len(t) /\ t[i + 1] = "]"
         THEN [ok |-> TRUE, val |-> PyList(<<>>), next |-> i + 2]
         ELSE JsonElements(t, i + 1, <<>>)
    ELSE NoParse

\* json.loads(t): one value and nothing after it, else JSONDecodeError (ok = FALSE).
JsonLoads(t) ==
    LET v == JsonValue(t, 1) IN
    IF v.ok /\ v.next = Len(t) + 1 THEN v ELSE NoParse

\* re.search(r'\{.*\}', text, re.DOTALL): <<first, last>> of the match, or
\* <<0, 0>>.  Greedy `.*` under DOTALL: first "{" to the last "}" after it.
ObjectMatch(text) ==
    LET opens == {i \in 1..Len(text) : text[i] = "{"}
        closes == {i \in 1..Len(text) : text[i] = "}"}
    IN IF opens = {} THEN <<0, 0>>
       ELSE LET a == CHOOSE i \in opens : \A j \in opens : i <= j
                after == {i \in closes : i > a}
            IN IF after = {} THEN <<0, 0>>
               ELSE <<a, CHOOSE i \in after : \A j \in after : j <= i>>

IsBracket(u) == u = "[" \/ u = "]"

\* [^\[\]]* from position i: the position of the next bracket, or Len + 1.
RECURSIVE SkipNonBrackets(_, _)
SkipNonBrackets(text, i) ==
    IF i > Len(text) \/ IsBracket(text[i]) THEN i
    ELSE SkipNonBrackets(text, i + 1)

\* (?:\[[^\[\]]*\][^\[\]]*)*\] from position i, which is at a bracket or
\* past the end: the position of the closing "]", or 0 when there is none.
RECURSIVE ArrayTail(_, _)
ArrayTail(text, i) ==
    IF i > Len(text) THEN 0
    ELSE IF text[i] = "]" THEN i
    ELSE LET j == SkipNonBrackets(text, i + 1) IN
         IF j > Len(text) \/ text[j] # "]" THEN 0
         ELSE ArrayTail(text, SkipNonBrackets(text, j + 1))

\* The array pattern anchored at position p: the end of the match, or 0.
ArrayMatchAt(text, p) ==
    IF text[p] # "[" THEN 0
    ELSE ArrayTail(text, SkipNonBrackets(text, p + 1))

\* re.search of the array pattern: the leftmost start that matches.
ArrayMatch(text) ==
    LET starts == {p \in 1..Len(text) : ArrayMatchAt(text, p) # 0} IN
    IF starts = {} THEN <<0, 0>>
    ELSE LET a == CHOOSE p \in starts : \A q \in starts : p <= q
         IN <<a, ArrayMatchAt(text, a)>>

\* The second half of the function: the array pattern, then None.
ParseArrayOrNone(text) ==
    LET am == ArrayMatch(text) IN
    IF am[1] # 0 /\ JsonLoads(SubSeq(text, am[1], am[2])).ok
    THEN JsonLoads(SubSeq(text, am[1], am[2])).val
    ELSE PyNone

\* A plausible slip: the array pattern tried before the object pattern.
ParseJsonArrayFirst(text) ==
    IF text = <<>> THEN PyNone
    ELSE IF ParseArrayOrNone(text) # PyNone THEN ParseArrayOrNone(text)
    ELSE LET om == ObjectMatch(text) IN
         IF om[1] # 0 /\ JsonLoads(SubSeq(text, om[1], om[2])).ok
         THEN JsonLoads(SubSeq(text, om[1], om[2])).val
         ELSE PyNone

_parse_json_from_response(text) ==
    IF text = <<>> THEN PyNone
    ELSE LET om == ObjectMatch(text) IN
         IF om[1] # 0 /\ JsonLoads(SubSeq(text, om[1], om[2])).ok
         THEN JsonLoads(SubSeq(text, om[1], om[2])).val
         ELSE ParseArrayOrNone(text)

(***************************************************************************)
(* The ResponseExtractor specification                                     *)
(***************************************************************************)
ExtractUnits == {"{", "}", "[", "]", ",", "s", "w", "m:name"}

MaxTextLen == 5

InitExtract ==
    /\ op = "start"
    /\ recipes_json = <<>>
    /\ requests = <<>>
    /\ response \in {[raises |-> FALSE, text |-> t] : t \in SeqsUpTo(ExtractUnits, MaxTextLen)}
    /\ recipes = <<>>
    /\ recipe = <<>>
    /\ preferences = <<>>
    /\ dietary_restrictions = <<>>
    /\ available_ingredients = <<>>
    /\ substitutions = <<>>
    /\ result = NoValue
    /\ raised = FALSE
    /\ prev_result = NoValue
    /\ calls = 0
    /\ ai_generator = "fallback"
    /\ hashseed = 0

\* self._parse_json_from_response(response_text); only JSONDecodeError can
\* arise inside it, and both places catch it.
Extract ==
    /\ op = "start"
    /\ op' = "extract"
    /\ result' = _parse_json_from_response(response.text)
    /\ raised' = FALSE
    /\ calls' = calls + 1
    /\ UNCHANGED <<inputs, prev_result>>

NextExtract == Extract

SpecExtract == InitExtract /\ [][NextExtract]_vars

(***************************************************************************)
(* C10                                                                     *)
(***************************************************************************)
IsBrace(u) == u = "{" \/ u = "}"

\* The span from the first "{" to the last "}" exists and parses.
BraceSpanParses(text) ==
    \E a, b \in 1..Len(text) :
        /\ text[a] = "{" /\ \A k \in 1..(a - 1) : text[k] # "{"
        /\ text[b] = "}" /\ \A k \in (b + 1)..Len(text) : text[k] # "}"
        /\ a < b
        /\ JsonLoads(SubSeq(text, a, b)).ok

BraceSpanValue(text) ==
    LET a == CHOOSE i \in 1..Len(text) : text[i] = "{" /\ \A k \in 1..(i - 1) : text[k] # "{"
        b == CHOOSE i \in 1..Len(text) : text[i] = "}" /\ \A k \in (i + 1)..Len(text) : text[k] # "}"
    IN JsonLoads(SubSeq(text, a, b)).val

\* Bracket depth inside a span that opens at p, after unit j.
Depth(text, p, j) ==
    Cardinality({k \in (p + 1)..j : text[k] = "["})
        - Cardinality({k \in (p + 1)..j : text[k] = "]"})

\* p..q is a top-level array span: "[" to its matching "]", with arrays
\* nested at most one level deep inside.
IsArraySpan(text, p, q) ==
    /\ p < q /\ text[p] = "[" /\ text[q] = "]"
    /\ \A j \in (p + 1)..(q - 1) : Depth(text, p, j) \in {0, 1}
    /\ Depth(text, p, q - 1) = 0

ArraySpans(text) ==
    {pq \in (1..Len(text)) \X (1..Len(text)) : IsArraySpan(text, pq[1], pq[2])}

LeftmostArraySpan(text) ==
    CHOOSE pq \in ArraySpans(text) : \A other \in ArraySpans(text) : pq[1] <= other[1]

\* What the fixed order of the extractor prescribes for a text.
ExpectedExtract(text) ==
    IF BraceSpanParses(text) THEN BraceSpanValue(text)
    ELSE IF ArraySpans(text) # {}
            /\ JsonLoads(SubSeq(text, LeftmostArraySpan(text)[1],
                                LeftmostArraySpan(text)[2])).ok
    THEN JsonLoads(SubSeq(text, LeftmostArraySpan(text)[1],
                          LeftmostArraySpan(text)[2])).val
    ELSE PyNone

\* The text is one JSON object with prose (no braces) before and after it.
ProseAroundObject(text, a, b) ==
    /\ a <= b
    /\ JsonLoads(SubSeq(text, a, b)).ok
    /\ JsonLoads(SubSeq(text, a, b)).val.kind = "object"
    /\ \A k \in (1..(a - 1)) \cup ((b + 1)..Len(text)) : ~IsBrace(text[k])

\* The whole text is one JSON array.
BareArray(text) == JsonLoads(text).ok /\ JsonLoads(text).val.kind = "array"

ExtractedInFixedOrder ==
    /\ raised = FALSE
    /\ result = ExpectedExtract(response.text)
    /\ (\A k \in 1..Len(response.text) :
            ~IsBrace(response.text[k]) /\ ~IsBracket(response.text[k]))
       => result = PyNone
    /\ \A a, b \in 1..Len(response.text) :
           ProseAroundObject(response.text, a, b)
               => result = JsonLoads(SubSeq(response.text, a, b)).val

S_International == <<"I","n","t","e","r","n","a","t","i","o","n","a","l">>
S_Breakfast == <<"B","r","e","a","k","f","a","s","t">>
S_Medium == <<"M","e","d","i","u","m">>
S_VegetarianPrefix == <<"V","e","g","e","t","a","r","i","a","n"," ">>
S_GlutenFreePrefix == <<"G","l","u","t","e","n","-","F","r","e","e"," ">>
S_space == <<" ">>
S_BowlSuffix == <<" ","B","o","w","l">>
S_DishSuffix == <<" ","D","i","s","h">>
S_olive_oil == <<"o","l","i","v","e"," ","o","i","l">>
S_garlic == <<"g","a","r","l","i","c">>
S_pepper == <<"p","e","p","p","e","r">>
S_Indian == <<"I","n","d","i","a","n">>
S_Japanese == <<"J","a","p","a","n","e","s","e">>
S_Mexican == <<"M","e","x","i","c","a","n">>
S_Mediterranean == <<"M","e","d","i","t","e","r","r","a","n","e","a","n">>
S_parmesan_cheese == <<"p","a","r","m","e","s","a","n"," ","c","h","e","e","s","e">>
S_curry_powder == <<"c","u","r","r","y"," ","p","o","w","d","e","r">>
S_turmeric == <<"t","u","r","m","e","r","i","c">>
S_cumin == <<"c","u","m","i","n">>
S_soy_sauce == <<"s","o","y"," ","s","a","u","c","e">>
S_ginger == <<"g","i","n","g","e","r">>
S_sesame_oil == <<"s","e","s","a","m","e"," ","o","i","l">>
S_cilantro == <<"c","i","l","a","n","t","r","o">>
S_lime == <<"l","i","m","e">>
S_lemon == <<"l","e","m","o","n">>
S_oregano == <<"o","r","e","g","a","n","o">>
S_olives == <<"o","l","i","v","e","s">>
S_ai_generated == <<"a","i","-","g","e","n","e","r","a","t","e","d">>
S_AdaptedSuffix == <<" ","(","A","d","a","p","t","e","d",")">>

\* "id": 9999, the id every generated recipe gets
AI_RECIPE_ID == 9999

\* What a generator method does: return a value, or let an exception escape.
Return(v) == [raised |-> FALSE, value |-> v]
Raise == [raised |-> TRUE, value |-> NoValue]

\* The cuisine_ingredients dict, as <<key, value>> pairs.
cuisine_ingredients == <<
    <<S_Italian, <<S_tomatoes, S_basil, S_parmesan_cheese>> >>,
    <<S_Indian, <<S_curry_powder, S_turmeric, S_cumin>> >>,
    <<S_Japanese, <<S_soy_sauce, S_ginger, S_sesame_oil>> >>,
    <<S_Mexican, <<S_cilantro, S_lime, S_cumin>> >>,
    <<S_Mediterranean, <<S_lemon, S_oregano, S_olives>> >> >>

\* lst[:n]
Take(lst, n) == SubSeq(lst, 1, IF Len(lst) < n THEN Len(lst) ELSE n)

\* ingredients.extend(cuisine_ingredients[cuisine][:2]) if the cuisine is a key
ExtendWithCuisine(ingredients, cuisine) ==
    IF \E n \in 1..Len(cuisine_ingredients) : cuisine_ingredients[n][1] = cuisine
    THEN ingredients \o
         Take(cuisine_ingredients[CHOOSE n \in 1..Len(cuisine_ingredients) :
                                      cuisine_ingredients[n][1] = cuisine][2], 2)
    ELSE ingredients

\* The elements of lst, each once, in order of first occurrence.
RECURSIVE FirstOccurrences(_, _, _)
FirstOccurrences(lst, i, acc) ==
    IF i > Len(lst) THEN acc
    ELSE FirstOccurrences(lst, i + 1,
                          IF InList(lst[i], acc) THEN acc ELSE Append(acc, lst[i]))

Reverse(lst) == [i \in 1..Len(lst) |-> lst[Len(lst) + 1 - i]]

\* list(set(lst)): the elements of lst, each once, in the iteration order of
\* the set, which follows from the string hashes of this process.  Two
\* orders stand for the orders a hash seed can produce.
ListOfSet(lst, seed) ==
    IF seed = 0 THEN FirstOccurrences(lst, 1, <<>>)
    ELSE Reverse(FirstOccurrences(lst, 1, <<>>))

\* The six step strings, the same for every input.
Steps == <<
    "Prepare all ingredients. Wash and chop vegetables if needed.",
    "Heat oil in a pan over medium heat. Add aromatics and cook until fragrant.",
    "Add main ingredients and cook for 5-7 minutes until tender.",
    "Season with salt, pepper, and spices to taste.",
    "Stir everything together and cook for another 2-3 minutes.",
    "Serve hot, garnished with fresh herbs if available." >>

Fallback_generate_recipe(prefs, restrictions, available, seed) ==
    LET cuisine == Get(prefs, "cuisine", S_International)
        meal_type == Get(prefs, "meal_type", S_Dinner)
        difficulty == Get(prefs, "difficulty", S_Easy)
        is_vegan == InList(S_vegan, restrictions)
        is_vegetarian == InList(S_vegetarian, restrictions) \/ is_vegan
        is_gluten_free == InList(S_gluten_free, restrictions)
        is_dairy_free == InList(S_dairy_free, restrictions) \/ is_vegan
        base0 == cuisine \o S_space \o meal_type
        base1 == IF is_vegetarian THEN S_VegetarianPrefix \o base0 ELSE base0
        base_name == IF is_gluten_free THEN S_GlutenFreePrefix \o base1 ELSE base1
        recipe_name == IF meal_type = S_Lunch THEN base_name \o S_BowlSuffix
                       ELSE base_name \o S_DishSuffix
        ingredients0 == IF available # <<>> THEN Take(available, 5)
                        ELSE <<S_olive_oil, S_garlic, S_salt, S_pepper>>
        ingredients == ExtendWithCuisine(ingredients0, cuisine)
        prep_time == IF difficulty = S_Easy THEN 10
                     ELSE IF difficulty = S_Medium THEN 15 ELSE 20
        cook_time == IF difficulty = S_Easy THEN 15
                     ELSE IF difficulty = S_Medium THEN 25 ELSE 35
    IN Return([id |-> AI_RECIPE_ID,
               name |-> recipe_name,
               cuisine |-> cuisine,
               meal_type |-> meal_type,
               difficulty |-> difficulty,
               prep_time |-> prep_time,
               cook_time |-> cook_time,
               servings |-> 4,
               ingredients |-> ListOfSet(ingredients, seed),
               steps |-> Steps,
               dietary_info |-> [vegetarian |-> is_vegetarian,
                                 vegan |-> is_vegan,
                                 gluten_free |-> is_gluten_free,
                                 dairy_free |-> is_dairy_free,
                                 nut_free |-> TRUE,
                                 low_carb |-> InList(S_low_carb, restrictions),
                                 keto |-> InList(S_keto, restrictions)],
               tags |-> restrictions \o <<S_ai_generated>>,
               ai_generated |-> TRUE])

\* A plausible slip: each ingredient takes the first substitution that
\* matches it, and the later ones do not see the new name.
ApplySubstitutionsAtOnce(adapted_ingredients, subs, k) ==
    [i \in 1..Len(adapted_ingredients) |->
        IF \E n \in 1..Len(subs) : Lower(adapted_ingredients[i]) = Lower(subs[n][1])
        THEN subs[CHOOSE n \in 1..Len(subs) :
                    /\ Lower(adapted_ingredients[i]) = Lower(subs[n][1])
                    /\ \A n2 \in 1..(n - 1) :
                           Lower(adapted_ingredients[i]) # Lower(subs[n2][1])][2]
        ELSE adapted_ingredients[i]]

\* for old_ing, new_ing in substitutions.items(): ..., from pair k on
RECURSIVE ApplySubstitutions(_, _, _)
ApplySubstitutions(adapted_ingredients, subs, k) ==
    IF k > Len(subs) THEN adapted_ingredients
    ELSE ApplySubstitutions(
             [i \in 1..Len(adapted_ingredients) |->
                 IF Lower(adapted_ingredients[i]) = Lower(subs[k][1])
                 THEN subs[k][2] ELSE adapted_ingredients[i]],
             subs, k + 1)

\* for i, ing in enumerate(adapted_ingredients): replace what is not owned
ReplaceUnavailable(adapted_ingredients, available) ==
    [i \in 1..Len(adapted_ingredients) |->
        IF ~InList(Lower(adapted_ingredients[i]), LowerAll(available))
           /\ available # <<>>
        THEN available[1] ELSE adapted_ingredients[i]]

Fallback_adapt_recipe(rcp, available, subs) ==
    LET adapted_ingredients ==
            ReplaceUnavailable(
                ApplySubstitutions(Get(rcp, "ingredients", <<>>), subs, 1), available)
        adapted1 == DictSet(rcp, "ingredients", adapted_ingredients)
    IN IF "name" \notin DOMAIN adapted1
       THEN Raise    \* adapted['name'] raises KeyError
       ELSE Return(DictSet(DictSet(adapted1, "name", adapted1["name"] \o S_AdaptedSuffix),
                           "ai_generated", TRUE))

\* A tip: its fixed text, and the text interpolated into it (if any).
Tip(text, arg) == [text |-> text, arg |-> arg]

\* A plausible slip: a recipe without a meal_type gets no extra tip.
FallbackTipsNoMealDefault(rcp) ==
    LET difficulty == Get(rcp, "difficulty", <<"E","a","s","y">>)
        meal_type == Get(rcp, "meal_type", <<>>)
        tips == <<
            [text |-> "Always prep your ingredients before you start cooking (mise en place).", arg |-> <<>>],
            [text |-> "For {} recipes, read through all steps before beginning.", arg |-> Lower(difficulty)],
            [text |-> "Taste and adjust seasoning as you cook, not just at the end.", arg |-> <<>>] >>
    IN [raised |-> FALSE,
        value |-> IF meal_type = <<"B","r","e","a","k","f","a","s","t">>
                  THEN Append(tips, [text |-> "Prep can be done the night before to save morning time.", arg |-> <<>>])
                  ELSE IF meal_type = <<"D","i","n","n","e","r">>
                  THEN Append(tips, [text |-> "Let proteins rest for a few minutes after cooking for better juiciness.", arg |-> <<>>])
                  ELSE tips]

Fallback_generate_cooking_tips(rcp) ==
    LET difficulty == Get(rcp, "difficulty", S_Easy)
        meal_type == Get(rcp, "meal_type", S_Dinner)
        tips == <<
            Tip("Always prep your ingredients before you start cooking (mise en place).", <<>>),
            Tip("For {} recipes, read through all steps before beginning.", Lower(difficulty)),
            Tip("Taste and adjust seasoning as you cook, not just at the end.", <<>>) >>
    IN Return(IF meal_type = S_Breakfast
              THEN Append(tips, Tip("Prep can be done the night before to save morning time.", <<>>))
              ELSE IF meal_type = S_Dinner
              THEN Append(tips, Tip("Let proteins rest for a few minutes after cooking for better juiciness.", <<>>))
              ELSE tips)

(***************************************************************************)
(* GeminiGenerator                                                         *)
(***************************************************************************)
\* Python truthiness of an extracted value: a non-empty dict or list.
Truthy(v) ==
    \/ v.kind = "object" /\ DOMAIN v.dict # {}
    \/ v.kind = "array" /\ v.items # <<>>

\* resp is what self.model.generate_content does; a raise inside `try`
\* (by the call, or by item assignment on a list) reaches `except Exception`.
Gemini_generate_recipe(prefs, restrictions, available, resp, seed) ==
    IF resp.raises
    THEN Fallback_generate_recipe(prefs, restrictions, available, seed)
    ELSE LET recipe_data == _parse_json_from_response(resp.text) IN
         IF Truthy(recipe_data)
         THEN IF recipe_data.kind = "object"
              THEN Return(DictSet(recipe_data.dict, "id", AI_RECIPE_ID))
              ELSE Fallback_generate_recipe(prefs, restrictions, available, seed)
         ELSE Fallback_generate_recipe(prefs, restrictions, available, seed)

Gemini_adapt_recipe(rcp, available, subs, resp) ==
    IF resp.raises
    THEN Fallback_adapt_recipe(rcp, available, subs)
    ELSE LET adapted_data == _parse_json_from_response(resp.text) IN
         IF Truthy(adapted_data)
         THEN IF adapted_data.kind = "object"
              THEN Return(DictSet(DictSet(adapted_data.dict, "ai_generated", TRUE),
                                  "id", Get(rcp, "id", AI_RECIPE_ID)))
              ELSE Fallback_adapt_recipe(rcp, available, subs)
         ELSE Fallback_adapt_recipe(rcp, available, subs)

Gemini_generate_cooking_tips(rcp, resp) ==
    IF resp.raises
    THEN Fallback_generate_cooking_tips(rcp)
    ELSE LET tips_data == _parse_json_from_response(resp.text) IN
         IF Truthy(tips_data) /\ tips_data.kind = "array"
         THEN Return(tips_data.items)
         ELSE Fallback_generate_cooking_tips(rcp)

\* get_ai_generator(): Gemini when the library imported, a key is set and
\* the constructor succeeds; the fallback otherwise.
get_ai_generator(gemini_available, has_api_key, init_ok) ==
    IF gemini_available /\ has_api_key
    THEN IF init_ok THEN "live" ELSE "fallback"
    ELSE "fallback"

(***************************************************************************)
(* The generator specification: one process holding the generator that     *)
(* get_ai_generator chose; each step is one call of a generator method.    *)
(* The variables hold the arguments of the call named by op (the others    *)
(* are empty), what the model collaborator did, and the call's outcome.    *)
(***************************************************************************)
S_Pasta == <<"P","a","s","t","a">>
S_egg == <<"e","g","g">>

GenPreferences ==
    {<<>>, [cuisine |-> S_Italian, meal_type |-> S_Lunch, difficulty |-> S_Hard]}

GenRestrictions == {<<>>, <<S_vegan>>}

GenOwned == {<<>>, <<S_salt, S_basil>>, <<S_egg, S_salt, S_egg>>}

GenSubstitutions == {<<>>, << <<S_Tomato, S_egg>> >>}

FullRecipe ==
    [id |-> 7, name |-> S_Pasta, cuisine |-> S_Italian, meal_type |-> S_Dinner,
     difficulty |-> S_Medium, ingredients |-> <<S_tomatoes, S_Tomato, S_salt>>,
     tags |-> <<S_vegan>>, ai_generated |-> FALSE]

Without(d, keys) == [k \in DOMAIN d \ keys |-> d[k]]

\* Recipes with all, some or none of their fields.
GenRecipes ==
    {FullRecipe,
     Without(FullRecipe, {"name"}),
     Without(FullRecipe, {"id", "ingredients", "meal_type", "difficulty"}),
     <<>>}

\* Texts the model collaborator can answer with.
GenTexts ==
    {<<>>,
     <<"w", "w">>,
     <<"{", "}">>,
     <<"[", "]">>,
     <<"[", "s", "]">>,
     <<"w", "[", "s", ",", "s", "]">>,
     <<"{", "m:name", "}">>,
     <<"{", "m:id5", "}">>,
     <<"{", "m:name", ",", "m:ai_false", "}">>,
     <<"w", "{", "m:name", ",", "m:ai_true", "}", "w">>,
     <<"{", "m:name">>,
     <<"[", "{", "m:name", "}", "]">>}

GenResponses ==
    {[raises |-> TRUE, text |-> <<>>]} \cup {[raises |-> FALSE, text |-> t] : t \in GenTexts}

\* What the model collaborator can do in a call of the generator g.
ResponsesOf(g) == IF g = "live" THEN GenResponses ELSE {NoResponse}

HashSeeds == {0, 1}

\* A plausible slip: a generator whose model call raised is replaced by the
\* fallback for the calls that follow.
GeneratorStickyFallback(g, resp) ==
    IF g = "live" /\ resp.raises THEN "fallback" ELSE g

\* The module-level ai_generator after a call in which the model did resp:
\* no method assigns to it, to self.model or to self.fallback.
GeneratorAfterCall(g, resp) == g

\* What is remembered of the call before this one: whether it was a call
\* of the live generator whose model call raised or answered with nothing
\* to extract.
PreviousCall ==
    IF op = "start" THEN NoValue
    ELSE [fell_back |-> /\ ai_generator = "live"
                        /\ \/ response.raises
                           \/ _parse_json_from_response(response.text) = PyNone]

InitGen ==
    /\ op = "start"
    /\ recipes_json = <<>>
    /\ requests = <<>>
    /\ ai_generator \in {get_ai_generator(a, k, i) : a \in BOOLEAN, k \in BOOLEAN, i \in BOOLEAN}
    /\ hashseed \in HashSeeds
    /\ recipes = <<>>
    /\ recipe = <<>>
    /\ preferences = <<>>
    /\ dietary_restrictions = <<>>
    /\ available_ingredients = <<>>
    /\ substitutions = <<>>
    /\ response = NoResponse
    /\ result = NoValue
    /\ raised = FALSE
    /\ prev_result = NoValue
    /\ calls = 0

\* ai_generator.generate_recipe(preferences, dietary_restrictions, available_ingredients)
Generate ==
    \E p \in GenPreferences, r \in GenRestrictions, o \in GenOwned,
       resp \in ResponsesOf(ai_generator) :
        LET out == IF ai_generator = "live"
                   THEN Gemini_generate_recipe(p, r, o, resp, hashseed)
                   ELSE Fallback_generate_recipe(p, r, o, hashseed)
        IN /\ op' = "generate"
           /\ preferences' = p
           /\ dietary_restrictions' = r
           /\ available_ingredients' = o
           /\ recipe' = <<>>
           /\ substitutions' = <<>>
           /\ response' = resp
           /\ result' = out.value
           /\ raised' = out.raised
           /\ prev_result' = PreviousCall
           /\ ai_generator' = GeneratorAfterCall(ai_generator, resp)
           /\ UNCHANGED <<recipes, calls, hashseed, recipes_json, requests>>

\* ai_generator.adapt_recipe(recipe, available_ingredients, substitutions)
Adapt ==
    \E rcp \in GenRecipes, o \in GenOwned, subs \in GenSubstitutions,
       resp \in ResponsesOf(ai_generator) :
        LET out == IF ai_generator = "live"
                   THEN Gemini_adapt_recipe(rcp, o, subs, resp)
                   ELSE Fallback_adapt_recipe(rcp, o, subs)
        IN /\ op' = "adapt"
           /\ recipe' = rcp
           /\ available_ingredients' = o
           /\ substitutions' = subs
           /\ preferences' = <<>>
           /\ dietary_restrictions' = <<>>
           /\ response' = resp
           /\ result' = out.value
           /\ raised' = out.raised
           /\ prev_result' = PreviousCall
           /\ ai_generator' = GeneratorAfterCall(ai_generator, resp)
           /\ UNCHANGED <<recipes, calls, hashseed, recipes_json, requests>>

\* ai_generator.generate_cooking_tips(recipe)
Tips ==
    \E rcp \in GenRecipes, resp \in ResponsesOf(ai_generator) :
        LET out == IF ai_generator = "live"
                   THEN Gemini_generate_cooking_tips(rcp, resp)
                   ELSE Fallback_generate_cooking_tips(rcp)
        IN /\ op' = "tips"
           /\ recipe' = rcp
           /\ available_ingredients' = <<>>
           /\ substitutions' = <<>>
           /\ preferences' = <<>>
           /\ dietary_restrictions' = <<>>
           /\ response' = resp
           /\ result' = out.value
           /\ raised' = out.raised
           /\ prev_result' = PreviousCall
           /\ ai_generator' = GeneratorAfterCall(ai_generator, resp)
           /\ UNCHANGED <<recipes, calls, hashseed, recipes_json, requests>>

NextGen == Generate \/ Adapt \/ Tips

SpecGen == InitGen /\ [][NextGen]_vars

(***************************************************************************)
(* Claims about the generators                                             *)
(***************************************************************************)
\* The call in op is a call of the live generator whose model call raised,
\* whose text had nothing to extract, or (tips) whose text was not an array.
LiveCallFailed ==
    /\ ai_generator = "live"
    /\ op \in {"generate", "adapt", "tips"}
    /\ \/ response.raises
       \/ _parse_json_from_response(response.text) = PyNone
       \/ op = "tips" /\ _parse_json_from_response(response.text).kind # "array"

\* What a fresh FallbackAIGenerator does for the arguments of the call in op.
FallbackOutcome ==
    CASE op = "generate" ->
             Fallback_generate_recipe(preferences, dietary_restrictions,
                                      available_ingredients, hashseed)
      [] op = "adapt" ->
             Fallback_adapt_recipe(recipe, available_ingredients, substitutions)
      [] op = "tips" -> Fallback_generate_cooking_tips(recipe)

\* C1: when the model call of a live generator operation raises, or its
\* response has no extractable payload (for tips: no JSON array), the
\* operation does not raise and returns exactly what a FallbackAIGenerator
\* returns for the same arguments.
C1_LiveFailureReturnsFallbackValue ==
    LiveCallFailed => /\ raised = FALSE
                      /\ result = FallbackOutcome.value

\* C2: ranking, adapting a recipe and generating tips for it (either
\* generator, the fallback path after a live failure included) never raise,
\* whichever fields the recipe lacks: a value is returned.
C2_NoRaiseOnMissingFields ==
    op \in {"rank", "cli_rank", "adapt", "tips"} => raised = FALSE

\* The call in op is a live generate_recipe that built its recipe from the
\* payload extracted from the model's response.
GeneratedFromResponse ==
    /\ ai_generator = "live"
    /\ op = "generate"
    /\ ~response.raises
    /\ Truthy(_parse_json_from_response(response.text))
    /\ _parse_json_from_response(response.text).kind = "object"

\* C3: a recipe the live generator builds from an extracted response has
\* id 9999 and ai_generated true.
C3_GeneratedRecipeIsStamped ==
    GeneratedFromResponse => /\ raised = FALSE
                             /\ Get(result, "id", 0) = AI_RECIPE_ID
                             /\ Get(result, "ai_generated", FALSE) = TRUE

(***************************************************************************)
(* The fallback-generation specification: one call of                      *)
(* FallbackAIGenerator.generate_recipe on arguments drawn by Init.         *)
(* After the call the argument variables hold the caller's objects as the  *)
(* call left them.                                                         *)
(***************************************************************************)
S_Keto == <<"K","e","t","o">>

FbPreferences ==
    {a @@ b @@ c : a \in OptionalField("cuisine", {S_Italian, S_Thai}),
                   b \in OptionalField("meal_type", {S_Lunch, S_Breakfast}),
                   c \in OptionalField("difficulty", {S_Easy, S_Medium, S_Hard, S_easy})}

\* Restriction lists: the vocabulary, some labels in another letter case,
\* an unknown label.
FbRestrictions ==
    {<<>>, <<S_vegan>>, <<S_Vegan>>, <<S_vegetarian>>, <<S_Vegetarian>>,
     <<S_gluten_free, S_keto>>, <<S_Keto>>, <<S_nut_free>>,
     <<S_low_carb, S_dairy_free>>, <<S_paleo, S_vegan>>}

\* Owned ingredients: none, one, a repeated one, two of the Italian
\* flavour ingredients, and six (one more than generate_recipe takes).
FbOwned ==
    {<<>>, <<S_salt>>, <<S_salt, S_Tomato, S_salt>>, <<S_tomatoes, S_basil>>,
     <<S_basil, S_egg, S_salt, S_garlic, S_pepper, S_lemon>>}

\* A plausible slip: `ingredients = available_ingredients` without the
\* slice, so that extend() writes into the caller's list.
OwnedExtendedInPlace(prefs, restrictions, available) ==
    IF available # <<>>
    THEN ExtendWithCuisine(available, Get(prefs, "cuisine", S_International))
    ELSE available

\* The caller's available_ingredients after the call: available_ingredients[:5]
\* is a new list, and extend() acts on that list.
OwnedAfterGenerate(prefs, restrictions, available) == available

\* The caller's dietary_restrictions after the call: the method only reads
\* it (`in`, and `+`, which builds a new list).
RestrictionsAfterGenerate(prefs, restrictions, available) == restrictions

InitFbGen ==
    /\ op = "start"
    /\ recipes_json = <<>>
    /\ requests = <<>>
    /\ preferences \in FbPreferences
    /\ dietary_restrictions \in FbRestrictions
    /\ available_ingredients \in FbOwned
    /\ hashseed \in HashSeeds
    /\ ai_generator = "fallback"
    /\ recipes = <<>>
    /\ recipe = <<>>
    /\ substitutions = <<>>
    /\ response = NoResponse
    /\ result = NoValue
    /\ raised = FALSE
    /\ prev_result = NoValue
    /\ calls = 0

\* FallbackAIGenerator().generate_recipe(preferences, dietary_restrictions, available_ingredients)
FbGenerate ==
    /\ op = "start"
    /\ op' = "fallback_generate"
    /\ result' = Fallback_generate_recipe(preferences, dietary_restrictions,
                                          available_ingredients, hashseed).value
    /\ raised' = Fallback_generate_recipe(preferences, dietary_restrictions,
                                          available_ingredients, hashseed).raised
    /\ available_ingredients' = OwnedAfterGenerate(preferences, dietary_restrictions,
                                                   available_ingredients)
    /\ dietary_restrictions' = RestrictionsAfterGenerate(preferences, dietary_restrictions,
                                                         available_ingredients)
    /\ calls' = calls + 1
    /\ UNCHANGED <<recipes, recipe, preferences, substitutions, response,
                   prev_result, ai_generator, hashseed, recipes_json, requests>>

NextFbGen == FbGenerate

SpecFbGen == InitFbGen /\ [][NextFbGen]_vars

(***************************************************************************)
(* C11                                                                     *)
(***************************************************************************)
ElementsOf(lst) == {lst[i] : i \in 1..Len(lst)}

DuplicateFree(lst) == \A i, j \in 1..Len(lst) : lst[i] = lst[j] => i = j

\* The ingredients the claim names: up to 5 owned ones (or the 4 defaults),
\* and the first 2 flavour ingredients of a cuisine of the table.
ExpectedGeneratedIngredients(cuisine, owned) ==
    (IF owned = <<>> THEN {S_olive_oil, S_garlic, S_salt, S_pepper}
     ELSE {owned[i] : i \in {j \in 1..Len(owned) : j <= 5}})
    \cup
    UNION {{cuisine_ingredients[n][2][1], cuisine_ingredients[n][2][2]} :
              n \in {k \in 1..Len(cuisine_ingredients) : cuisine_ingredients[k][1] = cuisine}}

\* What the claim says of the recipe r returned for prefs and owned.
GeneratedAsSpecified(r, prefs, owned) ==
    LET cuisine == Get(prefs, "cuisine", S_International)
        meal_type == Get(prefs, "meal_type", S_Dinner)
        difficulty == Get(prefs, "difficulty", S_Easy)
    IN /\ r.id = 9999
       /\ r.ai_generated = TRUE
       /\ StrIn(cuisine, r.name)
       /\ StrIn(meal_type, r.name)
       /\ difficulty = S_Easy => r.prep_time = 10 /\ r.cook_time = 15
       /\ difficulty = S_Medium => r.prep_time = 15 /\ r.cook_time = 25
       /\ difficulty = S_Hard => r.prep_time = 20 /\ r.cook_time = 35
       /\ DuplicateFree(r.ingredients)
       /\ ElementsOf(r.ingredients) = ExpectedGeneratedIngredients(cuisine, owned)
       /\ (cuisine = S_Italian /\ meal_type = S_Lunch /\ difficulty = S_Easy /\ owned = <<>>)
              => /\ r.prep_time = 10
                 /\ r.cook_time = 15
                 /\ InList(S_tomatoes, r.ingredients)
                 /\ InList(S_basil, r.ingredients)

\* C11: the fallback's generate returns a recipe with id 9999 and
\* ai_generated true, named after the requested cuisine and meal type, timed
\* by the difficulty table, whose ingredients are duplicate-free and are the
\* first 5 owned ingredients (or the 4 defaults) plus the first 2 flavour
\* ingredients of a cuisine of the table; the caller's owned-ingredient and
\* restriction lists are as they were.
C11_FallbackGenerateAsSpecified ==
    [][ op' = "fallback_generate" =>
            /\ raised' = FALSE
            /\ GeneratedAsSpecified(result', preferences, available_ingredients)
            /\ available_ingredients' = available_ingredients
            /\ dietary_restrictions' = dietary_restrictions ]_vars

\* The claim's example: Italian/Lunch/Easy with nothing owned gives the four
\* defaults, tomatoes and basil, prepared in 10 and cooked in 15 minutes.
C11_Witness ==
    /\ op = "fallback_generate"
    /\ preferences = [cuisine |-> S_Italian, meal_type |-> S_Lunch,
                      difficulty |-> S_Easy]
    /\ available_ingredients = <<>>
    /\ result.prep_time = 10
    /\ result.cook_time = 15
    /\ Len(result.ingredients) = 6
    /\ InList(S_tomatoes, result.ingredients)

(***************************************************************************)
(* The adaptation specification: one call of ai_generator.adapt_recipe on  *)
(* arguments drawn by Init, by either generator.  After the call `recipe`  *)
(* holds the caller's recipe as the call left it.                          *)
(***************************************************************************)
S_SALT == <<"S","A","L","T">>

\* Recipes: with or without a name, an ingredient list and the other fields.
AdaptRecipes ==
    {a @@ b @@ c :
        a \in OptionalField("name", {S_Pasta}),
        b \in OptionalField("ingredients",
                            {<<>>, <<S_egg>>, <<S_Tomato, S_salt>>,
                             <<S_tomatoes, S_Tomato, S_basil>>}),
        c \in {<<>>, [id |-> 7, cuisine |-> S_Italian, tags |-> <<S_vegan>>,
                      ai_generated |-> FALSE]}}

AdaptOwned == {<<>>, <<S_SALT>>, <<S_basil, S_Tomato>>, <<S_egg, S_salt>>}

\* The substitutions dict, as <<old, new>> pairs in insertion order: none, one,
\* one whose key differs in case from the ingredient, and two where one's new
\* name is the other's old name, in both orders.
AdaptSubstitutions ==
    {<<>>,
     << <<S_Tomato, S_egg>> >>,
     << <<S_SALT, S_pepper>> >>,
     << <<S_tomatoes, S_Tomato>>, <<S_Tomato, S_basil>> >>,
     << <<S_Tomato, S_basil>>, <<S_tomatoes, S_Tomato>> >>}

\* The caller's recipe after the call: both methods work on recipe.copy()
\* and on a copy of its ingredient list (the live method only reads it).
RecipeAfterAdapt(rcp, available, subs) == rcp

InitAdapt ==
    /\ op = "start"
    /\ recipes_json = <<>>
    /\ requests = <<>>
    /\ recipe \in AdaptRecipes
    /\ available_ingredients \in AdaptOwned
    /\ substitutions \in AdaptSubstitutions
    /\ ai_generator \in {get_ai_generator(a, k, i) : a \in BOOLEAN, k \in BOOLEAN, i \in BOOLEAN}
    /\ response \in ResponsesOf(ai_generator)
    /\ hashseed = 0
    /\ recipes = <<>>
    /\ preferences = <<>>
    /\ dietary_restrictions = <<>>
    /\ result = NoValue
    /\ raised = FALSE
    /\ prev_result = NoValue
    /\ calls = 0

\* ai_generator.adapt_recipe(recipe, available_ingredients, substitutions)
AdaptOnce ==
    LET out == IF ai_generator = "live"
               THEN Gemini_adapt_recipe(recipe, available_ingredients, substitutions,
                                        response)
               ELSE Fallback_adapt_recipe(recipe, available_ingredients, substitutions)
    IN /\ op = "start"
       /\ op' = "adapt_once"
       /\ result' = out.value
       /\ raised' = out.raised
       /\ recipe' = RecipeAfterAdapt(recipe, available_ingredients, substitutions)
       /\ calls' = calls + 1
       /\ UNCHANGED <<recipes, preferences, dietary_restrictions,
                      available_ingredients, substitutions, response,
                      prev_result, ai_generator, hashseed, recipes_json, requests>>

NextAdapt == AdaptOnce

SpecAdapt == InitAdapt /\ [][NextAdapt]_vars

(***************************************************************************)
(* C12                                                                     *)
(***************************************************************************)
AdaptedFields == {"ingredients", "name", "ai_generated"}

\* r has the fields of rcp with their values, except for ingredients, name
\* (the name of rcp with " (Adapted)" appended) and ai_generated (true).
AdaptedKeepsOtherFields(r, rcp) ==
    /\ DOMAIN r = DOMAIN rcp \cup AdaptedFields
    /\ \A k \in DOMAIN rcp \ AdaptedFields : r[k] = rcp[k]
    /\ r["name"] = Get(rcp, "name", <<>>) \o S_AdaptedSuffix
    /\ r["ai_generated"] = TRUE

\* C12: adapt, by either generator, leaves the caller's recipe as it was and
\* returns a recipe equal to it on every field except ingredients, name (the
\* original name followed by " (Adapted)") and ai_generated (true).
C12_AdaptReturnsNewRecipeKeepingFields ==
    [][ op' = "adapt_once" =>
            /\ recipe' = recipe
            /\ raised' = FALSE
            /\ AdaptedKeepsOtherFields(result', recipe) ]_vars

(***************************************************************************)
(* C14                                                                     *)
(***************************************************************************)
\* One ingredient after the substitutions k.. were applied to it in order.
RECURSIVE SubstituteOne(_, _, _)
SubstituteOne(ing, subs, k) ==
    IF k > Len(subs) THEN ing
    ELSE SubstituteOne(IF Lower(ing) = Lower(subs[k][1]) THEN subs[k][2] ELSE ing,
                       subs, k + 1)

IsOwned(ing, owned) == \E j \in 1..Len(owned) : Lower(owned[j]) = Lower(ing)

\* The first owned ingredient in place of one that is not owned.
FillOne(ing, owned) ==
    IF owned # <<>> /\ ~IsOwned(ing, owned) THEN owned[1] ELSE ing

\* The call in op is an adapt_recipe of the fallback that returned.
FallbackAdapted ==
    /\ op = "adapt_once"
    /\ ai_generator = "fallback"
    /\ ~raised

\* C14: the fallback's adapt keeps the length and order of the ingredient
\* list; position by position it applies the substitutions that match
\* case-insensitively, one after another in mapping order, and then puts
\* the first owned ingredient in place of a result that is not
\* case-insensitively owned (nothing, when nothing is owned).
C14_FallbackAdaptIngredientRule ==
    FallbackAdapted =>
        LET orig == Get(recipe, "ingredients", <<>>)
            out == result["ingredients"]
        IN /\ Len(out) = Len(orig)
           /\ \A i \in 1..Len(orig) :
                 out[i] = FillOne(SubstituteOne(orig[i], substitutions, 1),
                                  available_ingredients)
           /\ available_ingredients # <<>> =>
                 \A i \in 1..Len(out) : IsOwned(out[i], available_ingredients)
           /\ available_ingredients = <<>> =>
                 \A i \in 1..Len(orig) : out[i] = SubstituteOne(orig[i], substitutions, 1)

\* "Tomato" is substituted by "egg", which is not owned and becomes "SALT";
\* "salt" is owned as "SALT" and stays.
C14_Witness ==
    /\ FallbackAdapted
    /\ Get(recipe, "ingredients", <<>>) = <<S_Tomato, S_salt>>
    /\ substitutions = << <<S_Tomato, S_egg>> >>
    /\ available_ingredients = <<S_SALT>>
    /\ result["ingredients"] = <<S_SALT, S_salt>>

(***************************************************************************)
(* The fallback-tips specification: one call of                            *)
(* FallbackAIGenerator.generate_cooking_tips on a recipe drawn by Init.    *)
(***************************************************************************)
S_dinner == <<"d","i","n","n","e","r">>

TipRecipes ==
    {a @@ b @@ c @@ d :
        a \in OptionalField("meal_type", {S_Breakfast, S_Dinner, S_Lunch, S_dinner}),
        b \in OptionalField("difficulty", {S_Easy, S_Hard, S_HARD}),
        c \in OptionalField("name", {S_Pasta}),
        d \in OptionalField("cuisine", {S_Italian, S_Thai})}

InitTips ==
    /\ op = "start"
    /\ recipes_json = <<>>
    /\ requests = <<>>
    /\ recipe \in TipRecipes
    /\ ai_generator = "fallback"
    /\ hashseed = 0
    /\ recipes = <<>>
    /\ preferences = <<>>
    /\ dietary_restrictions = <<>>
    /\ available_ingredients = <<>>
    /\ substitutions = <<>>
    /\ response = NoResponse
    /\ result = NoValue
    /\ raised = FALSE
    /\ prev_result = NoValue
    /\ calls = 0

\* FallbackAIGenerator().generate_cooking_tips(recipe)
FbTips ==
    /\ op = "start"
    /\ op' = "fallback_tips"
    /\ result' = Fallback_generate_cooking_tips(recipe).value
    /\ raised' = Fallback_generate_cooking_tips(recipe).raised
    /\ calls' = calls + 1
    /\ UNCHANGED <<inputs, prev_result>>

NextTips == FbTips

SpecTips == InitTips /\ [][NextTips]_vars

(***************************************************************************)
(* C15                                                                     *)
(***************************************************************************)
PrepTip == "Always prep your ingredients before you start cooking (mise en place)."
ReadTip == "For {} recipes, read through all steps before beginning."
TasteTip == "Taste and adjust seasoning as you cook, not just at the end."
BreakfastTip == "Prep can be done the night before to save morning time."
DinnerTip == "Let proteins rest for a few minutes after cooking for better juiciness."

\* The three tips a recipe without fields gets.
GenericTips ==
    <<[text |-> PrepTip, arg |-> <<>>], [text |-> ReadTip, arg |-> S_easy],
      [text |-> TasteTip, arg |-> <<>>]>>

C17_GeneratedPassesDietaryMatcher ==
    op = "fallback_generate" =>
        /\ matches_dietary_restrictions(result, dietary_restrictions)
        /\ result["dietary_info"]["vegan"] =>
               /\ result["dietary_info"]["vegetarian"]
               /\ result["dietary_info"]["dairy_free"]

(***************************************************************************)
(* C16                                                                     *)
(***************************************************************************)
\* The model answered the call in op with a payload of the kind the
\* operation takes: an object for generate and adapt, an array for tips.
LiveCallSucceeded ==
    /\ ai_generator = "live"
    /\ op \in {"generate", "adapt", "tips"}
    /\ ~response.raises
    /\ Truthy(_parse_json_from_response(response.text))
    /\ _parse_json_from_response(response.text).kind =
           (IF op = "tips" THEN "array" ELSE "object")

\* The result of the call in op is the payload of its response (for a
\* recipe: apart from the fields the operation stamps).
ResultIsLivePayload ==
    LET payload == _parse_json_from_response(response.text) IN
    /\ ~raised
    /\ IF op = "tips" THEN result = payload.items
       ELSE /\ DOMAIN payload.dict \subseteq DOMAIN result
            /\ \A k \in DOMAIN payload.dict \ {"id", "ai_generated"} :
                   result[k] = payload.dict[k]

\* C16: the generator chosen at start-up stays the one in use across calls,
\* whatever the calls did; so a call of the live generator that follows a
\* failed one is again answered from the model's response when the model
\* call succeeds.
C16_FallbackNeverSticky ==
    /\ [][ai_generator' = ai_generator]_vars
    /\ [](LiveCallSucceeded => ResultIsLivePayload)

\* A call that fell back, followed by a generate answered from the model's
\* response.
C16_Witness ==
    /\ prev_result = [fell_back |-> TRUE]
    /\ ai_generator = "live"
    /\ op = "generate"
    /\ response = [raises |-> FALSE, text |-> <<"{", "m:name", "}">>]
    /\ result["name"] = S_X

(***************************************************************************)
(* The recommend specification: concurrent /api/recommend requests, each   *)
(* running recommend_recipes on its own locals, over one recipes.json and  *)
(* one module-level ai_generator.  A step is one statement group of one    *)
(* request; steps of different requests interleave freely.                 *)
(***************************************************************************)
RequestIds == {1, 2}

\* The preferences and the owned ingredients a request sends, by request.
RequestPreferences(r) ==
    IF r = 1 THEN [cuisine |-> S_Italian] ELSE [cuisine |-> S_Thai, meal_type |-> S_Lunch]

RequestOwned(r) == IF r = 1 THEN <<S_salt>> ELSE <<S_basil>>

StoredCorpora ==
    {<<>>,
     << [cuisine |-> S_Italian, ingredients |-> <<S_salt>>] >>,
     << [cuisine |-> S_Thai, ingredients |-> <<S_basil>>],
        [cuisine |-> S_Italian, ingredients |-> <<S_salt>>] >>}

\* What the model can do in a request's generate_recipe call.
RecommendResponses ==
    {[raises |-> TRUE, text |-> <<>>],
     [raises |-> FALSE, text |-> <<"w">>],
     [raises |-> FALSE, text |-> <<"{", "m:name", "}">>]}

\* The variables no step of a recommend request touches.
call_vars == <<op, recipes, recipe, preferences, dietary_restrictions,
               available_ingredients, substitutions, response, result, raised,
               prev_result, calls, ai_generator, hashseed>>

IdleRequest ==
    [pc |-> "idle", use_ai_generation |-> FALSE, available_ingredients |-> <<>>,
     recipes |-> <<>>, ai_generated |-> NoValue, filtered |-> <<>>]

\* load_recipes(): json.load builds a new list from the file at every call.
load_recipes(stored) == stored

\* A plausible slip: load_recipes hands out one cached list, so that
\* recipes.append(...) of a request writes into the corpus of all.
StoreAppendedInPlace(stored, candidate) == Append(stored, candidate)

\* recipes.json after recipes.append(ai_generated) of a request: the list
\* appended to is the request's own, and recommend_recipes never saves.
StoreAfterAppend(stored, candidate) == stored

InitRecommend ==
    /\ op = "start"
    /\ recipes_json \in StoredCorpora
    /\ requests = [r \in RequestIds |-> IdleRequest]
    /\ ai_generator \in {get_ai_generator(a, k, i) : a \in BOOLEAN, k \in BOOLEAN, i \in BOOLEAN}
    /\ hashseed = 0
    /\ recipes = <<>>
    /\ recipe = <<>>
    /\ preferences = <<>>
    /\ dietary_restrictions = <<>>
    /\ available_ingredients = <<>>
    /\ substitutions = <<>>
    /\ response = NoResponse
    /\ result = NoValue
    /\ raised = FALSE
    /\ prev_result = NoValue
    /\ calls = 0

\* data = request.json ... use_ai_generation = data.get('use_ai_generation', False)
Receive(r) ==
    /\ requests[r].pc = "idle"
    /\ \E use_ai \in BOOLEAN, owned \in {<<>>, RequestOwned(r)} :
          requests' = [requests EXCEPT ![r] =
                          [@ EXCEPT !.pc = "received",
                                    !.use_ai_generation = use_ai,
                                    !.available_ingredients = owned]]
    /\ UNCHANGED <<recipes_json, call_vars>>

\* recipes = load_recipes()
Load(r) ==
    /\ requests[r].pc = "received"
    /\ requests' = [requests EXCEPT ![r] =
                       [@ EXCEPT !.pc = "loaded",
                                 !.recipes = load_recipes(recipes_json)]]
    /\ UNCHANGED <<recipes_json, call_vars>>

\* if use_ai_generation and available_ingredients: generate and append
GenerateCandidate(r) ==
    /\ requests[r].pc = "loaded"
    /\ UNCHANGED call_vars
    /\ IF requests[r].use_ai_generation /\ requests[r].available_ingredients # <<>>
       THEN \E resp \in (IF ai_generator = "live" THEN RecommendResponses ELSE {NoResponse}) :
              LET out == IF ai_generator = "live"
                         THEN Gemini_generate_recipe(RequestPreferences(r), <<>>,
                                  requests[r].available_ingredients, resp, hashseed)
                         ELSE Fallback_generate_recipe(RequestPreferences(r), <<>>,
                                  requests[r].available_ingredients, hashseed)
              IN IF out.raised
                 THEN /\ requests' = [requests EXCEPT ![r] = [@ EXCEPT !.pc = "generated"]]
                      /\ UNCHANGED recipes_json
                 ELSE /\ requests' = [requests EXCEPT ![r] =
                                         [@ EXCEPT !.pc = "generated",
                                                   !.ai_generated = out.value,
                                                   !.recipes = Append(@, out.value)]]
                      /\ recipes_json' = StoreAfterAppend(recipes_json, out.value)
       ELSE /\ requests' = [requests EXCEPT ![r] = [@ EXCEPT !.pc = "generated"]]
            /\ UNCHANGED recipes_json

\* filtered = filter_recipes(recipes, preferences, dietary_restrictions, available_ingredients)
Filter(r) ==
    /\ requests[r].pc = "generated"
    /\ requests' = [requests EXCEPT ![r] =
                       [@ EXCEPT !.pc = "done",
                                 !.filtered = filter_recipes(requests[r].recipes,
                                                  RequestPreferences(r), <<>>,
                                                  requests[r].available_ingredients)]]
    /\ UNCHANGED <<recipes_json, call_vars>>

RecommendStep(r) == Receive(r) \/ Load(r) \/ GenerateCandidate(r) \/ Filter(r)

NextRecommend == \E r \in RequestIds : RecommendStep(r)

SpecRecommend == InitRecommend /\ [][NextRecommend]_vars

(***************************************************************************)
(* C13                                                                     *)
(***************************************************************************)
\* The corpus a request works on is the stored corpus, followed by the
\* candidate generated for this request if there is one.
OwnCorpus(r) ==
    requests[r].pc \in {"loaded", "generated", "done"} =>
        requests[r].recipes =
            (IF requests[r].ai_generated = NoValue THEN recipes_json
             ELSE Append(recipes_json, requests[r].ai_generated))

\* The recipes of a request's ranking are those of its own corpus.
OwnRanking(r) ==
    requests[r].pc = "done" =>
        \A i \in 1..Len(requests[r].filtered) :
            \/ InList(requests[r].filtered[i].recipe, recipes_json)
            \/ /\ requests[r].ai_generated # NoValue
               /\ requests[r].filtered[i].recipe = requests[r].ai_generated

\* C13: in any interleaving of recommend requests, the stored corpus stays
\* as it was, and each request ranks the stored corpus plus at most the
\* candidate generated for it, never a candidate of another request.
C13_CandidateStaysInOwnRequest ==
    /\ [][recipes_json' = recipes_json]_vars
    /\ [](\A r \in RequestIds : OwnCorpus(r) /\ OwnRanking(r))

\* Both requests generated a candidate and finished; the candidates differ,
\* and each ranking holds its own.
C13_Witness ==
    /\ \A r \in RequestIds : requests[r].pc = "done" /\ requests[r].ai_generated # NoValue
    /\ requests[1].ai_generated # requests[2].ai_generated
    /\ \A r \in RequestIds :
          \E i \in 1..Len(requests[r].filtered) :
              requests[r].filtered[i].recipe = requests[r].ai_generated
    /\ recipes_json # <<>>

====
